---- MODULE Spec2Model ----
(***************************************************************************)
(* A model of precopy (src/main.go): the recursive comparison of two       *)
(* directory trees (checkDir), the streaming comparison of two files       *)
(* (IsFileContentIdentical) and the verdict of precopyCheck.               *)
(*                                                                         *)
(* The two trees are read-only.  A path is a sequence <<root, n1, .. nk>>. *)
(* The operating system is the environment: every call that can fail       *)
(* (ReadDir, Info, Open, Read, Close) either succeeds or fails, and a Read *)
(* returns between one byte and the bytes that fit (io.Reader's contract). *)
(***************************************************************************)
EXTENDS Integers, Sequences, FiniteSets, TLC

\* ------------------------------------------------------------ bounds
\* The longest file handed to IsFileContentIdentical directly.
MaxLen == 4
\* The largest number of entries of one tree.
MaxNodes == 2

\* const chunkSize = 64000, scaled down so that files of one chunk, one
\* chunk + 1 and several chunks fit in MaxLen.
chunkSize == 2
exitStatusCopyUnsafe == 3
exitStatusOtherErrors == 4
\* log.Fatal ends the process with os.Exit(1).
exitStatusLogFatal == 1

Byte == {0, 1}
\* Entry names, in the order os.ReadDir sorts them.
NameOrder == <<"a", "b">>
Names == {NameOrder[k] : k \in 1..Len(NameOrder)}
\* The contents of the files of the trees that are walked.
TreeFiles == {<<>>, <<1>>, <<0, 1>>, <<1, 1>>}

RootA == "A"
RootB == "B"

\* ------------------------------------------------------------ the trees
SeqsUpTo(n) == UNION {[1..k -> Byte] : k \in 0..n}

Parent(p) == SubSeq(p, 1, Len(p) - 1)

RelPaths == UNION {[1..k -> Names] : k \in 1..MaxNodes}

Shapes ==
  {S \in SUBSET RelPaths :
     /\ Cardinality(S) <= MaxNodes
     /\ \A p \in S : Len(p) > 1 => Parent(p) \in S}

DirNode == [isDir |-> TRUE, data |-> <<>>]
FileNode(d) == [isDir |-> FALSE, data |-> d]

Nodes == {DirNode} \cup {FileNode(d) : d \in TreeFiles}

\* A finite tree: a prefix-closed set of relative paths, each a directory
\* or a file with its bytes; only a directory has children.
Trees ==
  UNION {{t \in [S -> Nodes] : \A p \in S : Len(p) > 1 => t[Parent(p)].isDir}
           : S \in Shapes}

\* A tree that holds the one file "a".
OneFile(d) == (<<"a">> :> FileNode(d))

VARIABLES
  entry,    \* the entry point: "precopyCheck" or "IsFileContentIdentical"
  fs,       \* [RootA |-> tree, RootB |-> tree]
  run,      \* 1: precopy A B; 2: precopy B A, run after it
  pc,       \* "start", "walk", "compare", "done"
  stack,    \* the active checkDir calls, the innermost last
  cmp,      \* the call of IsFileContentIdentical in progress
  handles,  \* the open files among "f1", "f2"
  notes,    \* *notesPtr
  notes1,   \* the notes of run 1, kept for run 2
  fail1,    \* the I/O failures of run 1, kept for run 2
  printed,  \* the verdict line printed, "" when none
  exit,     \* <<>> while the process runs, <<status>> once it has exited
  result,   \* <<>>, or <<b>> once a direct call has returned b
  opened,   \* the paths passed to os.Open
  listed,   \* the paths passed to os.ReadDir
  ioFail    \* the I/O failures the environment has reported

vars == <<entry, fs, run, pc, stack, cmp, handles, notes, notes1, fail1,
          printed, exit, result, opened, listed, ioFail>>

\* ------------------------------------------------------------ the file system
Rel(path) == Tail(path)
Tree(path) == fs[Head(path)]
Exists(path) == Rel(path) \in DOMAIN Tree(path)
Node(path) == Tree(path)[Rel(path)]
Content(path) == Node(path).data

Join(dir, name) == Append(dir, name)

\* os.ReadDir: the entries of a directory, sorted by name.  A DirEntry has
\* its name, its type, and (through Info) its size.
DirEntryOf(dir, name) ==
  [name |-> name,
   isDir |-> Node(Join(dir, name)).isDir,
   size |-> Len(Node(Join(dir, name)).data)]

RECURSIVE ListFrom(_, _)
ListFrom(dir, k) ==
  IF k > Len(NameOrder) THEN <<>>
  ELSE IF Exists(Join(dir, NameOrder[k]))
       THEN <<DirEntryOf(dir, NameOrder[k])>> \o ListFrom(dir, k + 1)
       ELSE ListFrom(dir, k + 1)

ReadDir(dir) == ListFrom(dir, 1)

readDirIntoMap(dir) ==
  LET entries == ReadDir(dir)
  IN [n \in {entries[k].name : k \in 1..Len(entries)} |->
        DirEntryOf(dir, n)]

Found(destEntries, name) == name \in DOMAIN destEntries

IsEmptyCmp == [pc |-> "idle", file1 |-> <<>>, file2 |-> <<>>,
               off1 |-> 0, off2 |-> 0, full |-> TRUE, res |-> FALSE]

Init ==
  /\ \/ /\ entry = "precopyCheck"
        /\ \E a \in Trees, b \in Trees : fs = [A |-> a, B |-> b]
     \/ /\ entry = "IsFileContentIdentical"
        /\ \E d1 \in SeqsUpTo(MaxLen), d2 \in SeqsUpTo(MaxLen) :
             fs = [A |-> OneFile(d1), B |-> OneFile(d2)]
  /\ run = 1
  /\ pc = "start"
  /\ stack = <<>>
  /\ cmp = IsEmptyCmp
  /\ handles = {}
  /\ notes = <<>>
  /\ notes1 = <<>>
  /\ fail1 = {}
  /\ printed = ""
  /\ exit = <<>>
  /\ result = <<>>
  /\ opened = {}
  /\ listed = {}
  /\ ioFail = {}

\* ------------------------------------------------------------ helpers
Min(x, y) == IF x < y THEN x ELSE y

Top == stack[Len(stack)]

\* A loop that stays on the same source entry.
AdvanceStuck(stk) == stk

\* The innermost checkDir call, moved on to its next source entry.
Advance(stk) == [stk EXCEPT ![Len(stk)].i = @ + 1]

\* fmt.Sprintf("'%s' and '%s' <kind>", sourcePath, destPath)
Msg(sourcePath, destPath, kind) ==
  [src |-> sourcePath, dst |-> destPath, kind |-> kind]

\* reportErrorAndExit, after the environment failed a call of kind `what`.
Abort(what) ==
  /\ exit' = <<exitStatusOtherErrors>>
  /\ ioFail' = ioFail \cup {what}
  /\ pc' = "done"

\* The first lines of checkDir(sourceDir, destDir): both listings are read
\* and the loop starts at the first source entry.
Frame(sourceDir, destDir) ==
  [sourceDir |-> sourceDir, destDir |-> destDir,
   destEntries |-> readDirIntoMap(destDir),
   entries |-> ReadDir(sourceDir), i |-> 1]

\* checkDir(sourceDir, destDir) is called with `stk` the calls that stay
\* active: the destination is listed first, then the source, and either
\* listing can fail.
CallCheckDir(sourceDir, destDir, stk) ==
  \/ /\ listed' = listed \cup {destDir, sourceDir}
     /\ stack' = Append(stk, Frame(sourceDir, destDir))
     /\ pc' = "walk"
     /\ UNCHANGED <<exit, ioFail>>
  \/ /\ listed' = listed \cup {destDir}
     /\ stack' = stk
     /\ Abort("list")
  \/ /\ listed' = listed \cup {destDir, sourceDir}
     /\ stack' = stk
     /\ Abort("list")

\* f.Read(b) with `avail` bytes left in the file: at end of data 0, io.EOF;
\* before it between 1 and len(b) bytes; or an error.
ReadOutcomes(avail) ==
  {[n |-> 0, err |-> "error"]} \cup
  (IF avail = 0
   THEN {[n |-> 0, err |-> "EOF"]}
   ELSE {[n |-> k, err |-> "nil"] : k \in 1..Min(chunkSize, avail)})

\* Whether a read returned all that a chunk can hold, or end of data.
FullRead(r, avail) ==
  \/ r.err = "EOF"
  \/ r.err = "nil" /\ r.n = Min(chunkSize, avail)

\* b := make([]byte, chunkSize); f.Read(b): the n bytes read, then zeros.
Buffer(data, off, n) ==
  [k \in 1..chunkSize |-> IF k <= n THEN data[off + k] ELSE 0]

\* A comparison that stops at the first byte of the chunk.
BytesEqualFirst(b1, b2) == b1[1] = b2[1]

BytesEqual(b1, b2) == b1 = b2

Walking == pc = "walk" /\ stack # <<>> /\ Top.i <= Len(Top.entries)
sourceEntry == Top.entries[Top.i]
destEntry == Top.destEntries[sourceEntry.name]
sourcePath == Join(Top.sourceDir, sourceEntry.name)
\* The destination path built from the source directory.
destPathFromSource == Join(Top.sourceDir, destEntry.name)
destPath == Join(Top.destDir, destEntry.name)

\* ------------------------------------------------------------ precopyCheck
\* precopyCheck(sourceDir, destDir): var notes; checkDir(..., &notes)
Start ==
  /\ entry = "precopyCheck" /\ pc = "start"
  /\ IF run = 1 THEN CallCheckDir(<<RootA>>, <<RootB>>, <<>>)
                ELSE CallCheckDir(<<RootB>>, <<RootA>>, <<>>)
  /\ UNCHANGED <<entry, fs, run, cmp, handles, notes, notes1, fail1, printed,
                 result, opened>>

\* checkDir has returned to precopyCheck: the verdict and the exit status.
Verdict ==
  /\ pc = "walk" /\ stack = <<>>
  /\ IF Len(notes) = 0
     THEN printed' = "Safe to copy" /\ exit' = <<0>>
     ELSE printed' = "It may be unsafe" /\ exit' = <<exitStatusCopyUnsafe>>
  /\ pc' = "done"
  /\ UNCHANGED <<entry, fs, run, stack, cmp, handles, notes, notes1, fail1,
                 result, opened, listed, ioFail>>

\* The program is run again with the two arguments exchanged.
Rerun ==
  /\ entry = "precopyCheck" /\ run = 1 /\ pc = "done"
  /\ exit \in {<<0>>, <<exitStatusCopyUnsafe>>}
  /\ run' = 2
  /\ notes1' = notes
  /\ fail1' = ioFail
  /\ notes' = <<>>
  /\ pc' = "start"
  /\ printed' = ""
  /\ exit' = <<>>
  /\ opened' = {}
  /\ listed' = {}
  /\ ioFail' = {}
  /\ UNCHANGED <<entry, fs, stack, cmp, handles, result>>

\* ------------------------------------------------------------ checkDir
\* if found is false: the entry exists in the source only.
SkipEntry ==
  /\ Walking
  /\ ~Found(Top.destEntries, sourceEntry.name)
  /\ stack' = Advance(stack)
  /\ UNCHANGED <<entry, fs, run, pc, cmp, handles, notes, notes1, fail1,
                 printed, exit, result, opened, listed, ioFail>>

\* Both entries are directories: checkDir(sourcePath, destPath, notesPtr).
Recurse ==
  /\ Walking
  /\ Found(Top.destEntries, sourceEntry.name)
  /\ sourceEntry.isDir /\ destEntry.isDir
  /\ CallCheckDir(sourcePath, destPath, Advance(stack))
  /\ UNCHANGED <<entry, fs, run, cmp, handles, notes, notes1, fail1, printed,
                 result, opened>>

\* Exactly one entry is a directory.
TypeMismatch ==
  /\ Walking
  /\ Found(Top.destEntries, sourceEntry.name)
  /\ sourceEntry.isDir # destEntry.isDir
  /\ notes' = Append(notes, Msg(sourcePath, destPath, "different types"))
  /\ stack' = Advance(stack)
  /\ UNCHANGED <<entry, fs, run, pc, cmp, handles, notes1, fail1, printed,
                 exit, result, opened, listed, ioFail>>

\* A size check that compares the source's size with itself.
SizesDifferSelf(sourceInfo, destInfo) == sourceInfo.size # sourceInfo.size

SizesDiffer(sourceInfo, destInfo) == sourceInfo.size # destInfo.size

\* Neither entry is a directory: Info of both, then the sizes, then the
\* contents.
CompareFiles ==
  /\ Walking
  /\ Found(Top.destEntries, sourceEntry.name)
  /\ ~sourceEntry.isDir /\ ~destEntry.isDir
  /\ \/ /\ Abort("stat")
        /\ UNCHANGED <<stack, cmp, notes>>
     \/ /\ SizesDiffer(sourceEntry, destEntry)
        /\ notes' = Append(notes, Msg(sourcePath, destPath, "different sizes"))
        /\ stack' = Advance(stack)
        /\ UNCHANGED <<pc, cmp, exit, ioFail>>
     \/ /\ ~SizesDiffer(sourceEntry, destEntry)
        /\ cmp' = [IsEmptyCmp EXCEPT !.pc = "open1", !.file1 = sourcePath,
                                     !.file2 = destPath]
        /\ pc' = "compare"
        /\ stack' = Advance(stack)
        /\ UNCHANGED <<notes, exit, ioFail>>
  /\ UNCHANGED <<entry, fs, run, handles, notes1, fail1, printed, result,
                 opened, listed>>

\* The loop over the source entries is over: checkDir returns.
ReturnDir ==
  /\ pc = "walk" /\ stack # <<>> /\ Top.i > Len(Top.entries)
  /\ stack' = SubSeq(stack, 1, Len(stack) - 1)
  /\ UNCHANGED <<entry, fs, run, pc, cmp, handles, notes, notes1, fail1,
                 printed, exit, result, opened, listed, ioFail>>

\* ---------------------------------------------- IsFileContentIdentical
\* A caller other than checkDir calls IsFileContentIdentical(A/a, B/a).
StartDirect ==
  /\ entry = "IsFileContentIdentical" /\ pc = "start"
  /\ cmp' = [IsEmptyCmp EXCEPT !.pc = "open1", !.file1 = <<RootA, "a">>,
                               !.file2 = <<RootB, "a">>]
  /\ pc' = "compare"
  /\ UNCHANGED <<entry, fs, run, stack, handles, notes, notes1, fail1,
                 printed, exit, result, opened, listed, ioFail>>

\* f1, err := os.Open(file1), and the deferred f1.Close().
OpenFirst ==
  /\ pc = "compare" /\ cmp.pc = "open1"
  /\ opened' = opened \cup {cmp.file1}
  /\ \/ /\ handles' = handles \cup {"f1"}
        /\ cmp' = [cmp EXCEPT !.pc = "open2"]
        /\ UNCHANGED <<pc, exit, ioFail>>
     \/ /\ Abort("open")
        /\ UNCHANGED <<handles, cmp>>
  /\ UNCHANGED <<entry, fs, run, stack, notes, notes1, fail1, printed, result,
                 listed>>

\* f2, err := os.Open(file2), and the deferred f2.Close().  os.Exit runs
\* no deferred call.
OpenSecond ==
  /\ pc = "compare" /\ cmp.pc = "open2"
  /\ opened' = opened \cup {cmp.file2}
  /\ \/ /\ handles' = handles \cup {"f2"}
        /\ cmp' = [cmp EXCEPT !.pc = "loop"]
        /\ UNCHANGED <<pc, exit, ioFail>>
     \/ /\ Abort("open")
        /\ UNCHANGED <<handles, cmp>>
  /\ UNCHANGED <<entry, fs, run, stack, notes, notes1, fail1, printed, result,
                 listed>>

\* One iteration of the loop, with r1 and r2 what the two reads return.
Iteration(r1, r2) ==
  LET d1 == Content(cmp.file1)
      d2 == Content(cmp.file2)
      b1 == Buffer(d1, cmp.off1, r1.n)
      b2 == Buffer(d2, cmp.off2, r2.n)
      read == [cmp EXCEPT !.off1 = @ + r1.n, !.off2 = @ + r2.n,
                          !.full = /\ @
                                   /\ FullRead(r1, Len(d1) - cmp.off1)
                                   /\ FullRead(r2, Len(d2) - cmp.off2)]
      failed == IF "error" \in {r1.err, r2.err} THEN {"read"} ELSE {}
  IN  IF r1.err # "nil" \/ r2.err # "nil"
      THEN IF r1.err = "EOF" /\ r2.err = "EOF"
           THEN /\ cmp' = [read EXCEPT !.pc = "ret", !.res = TRUE]
                /\ ioFail' = ioFail \cup failed
                /\ UNCHANGED <<pc, exit>>
           ELSE IF r1.err = "EOF" \/ r2.err = "EOF"
           THEN /\ cmp' = [read EXCEPT !.pc = "ret", !.res = FALSE]
                /\ ioFail' = ioFail \cup failed
                /\ UNCHANGED <<pc, exit>>
           ELSE \* log.Fatal(err1, err2)
                /\ cmp' = read
                /\ ioFail' = ioFail \cup failed
                /\ exit' = <<exitStatusLogFatal>>
                /\ pc' = "done"
      ELSE IF ~BytesEqual(b1, b2)
           THEN /\ cmp' = [read EXCEPT !.pc = "ret", !.res = FALSE]
                /\ UNCHANGED <<pc, exit, ioFail>>
           ELSE /\ cmp' = read
                /\ UNCHANGED <<pc, exit, ioFail>>

ReadChunks ==
  /\ pc = "compare" /\ cmp.pc = "loop"
  /\ \E r1 \in ReadOutcomes(Len(Content(cmp.file1)) - cmp.off1),
        r2 \in ReadOutcomes(Len(Content(cmp.file2)) - cmp.off2) :
       Iteration(r1, r2)
  /\ UNCHANGED <<entry, fs, run, stack, handles, notes, notes1, fail1,
                 printed, result, opened, listed>>

\* return: the deferred f2.Close() and f1.Close() run, in that order, and a
\* failed Close ends the process; then the caller has the result, and
\* checkDir records the note "content differs" on false.
ReturnCompare ==
  /\ pc = "compare" /\ cmp.pc = "ret"
  /\ \/ /\ handles' = handles \ {"f2"}
        /\ Abort("close")
        /\ UNCHANGED <<cmp, notes, result>>
     \/ /\ handles' = handles \ {"f2", "f1"}
        /\ Abort("close")
        /\ UNCHANGED <<cmp, notes, result>>
     \/ /\ handles' = handles \ {"f2", "f1"}
        /\ UNCHANGED <<exit, ioFail>>
        /\ IF entry = "IsFileContentIdentical"
           THEN /\ result' = <<cmp.res>>
                /\ pc' = "done"
                /\ UNCHANGED <<cmp, notes>>
           ELSE /\ notes' = IF cmp.res THEN notes
                            ELSE Append(notes, Msg(cmp.file1, cmp.file2,
                                                   "content differs"))
                /\ pc' = "walk"
                /\ cmp' = IsEmptyCmp
                /\ UNCHANGED result
  /\ UNCHANGED <<entry, fs, run, stack, notes1, fail1, printed, opened,
                 listed>>

Next ==
  \/ Start
  \/ Verdict
  \/ Rerun
  \/ SkipEntry
  \/ Recurse
  \/ TypeMismatch
  \/ CompareFiles
  \/ ReturnDir
  \/ StartDirect
  \/ OpenFirst
  \/ OpenSecond
  \/ ReadChunks
  \/ ReturnCompare

Spec == Init /\ [][Next]_vars

\* The operating system schedules the one process until it ends.
LiveSpec == Spec /\ WF_vars(Next)

\* ---------------------------------------------- what the claims speak of
SourceRoot == IF run = 1 THEN RootA ELSE RootB
DestRoot == IF run = 1 THEN RootB ELSE RootA

\* The relative paths that exist in both trees.
Common == DOMAIN fs[RootA] \cap DOMAIN fs[RootB]

Ancestors(r) == {SubSeq(r, 1, k) : k \in 1..(Len(r) - 1)}

\* Every proper ancestor of r is a directory in both trees.
UnderCommonDirs(r) ==
  \A q \in Ancestors(r) :
    /\ q \in Common
    /\ fs[RootA][q].isDir /\ fs[RootB][q].isDir

Paired == {r \in Common : UnderCommonDirs(r)}

NodeA(r) == fs[RootA][r]
NodeB(r) == fs[RootB][r]

TypesDiffer(r) == NodeA(r).isDir # NodeB(r).isDir
BothFiles(r) == ~NodeA(r).isDir /\ ~NodeB(r).isDir
LengthsDiffer(r) == BothFiles(r) /\ Len(NodeA(r).data) # Len(NodeB(r).data)
BytesDiffer(r) ==
  /\ BothFiles(r)
  /\ Len(NodeA(r).data) = Len(NodeB(r).data)
  /\ NodeA(r).data # NodeB(r).data

Diverges(r) == TypesDiffer(r) \/ LengthsDiffer(r) \/ BytesDiffer(r)

KindOf(r) ==
  IF TypesDiffer(r) THEN "different types"
  ELSE IF LengthsDiffer(r) THEN "different sizes"
  ELSE "content differs"

\* The notes a walk from sroot to droot is to record.
ExpectedNotes(sroot, droot) ==
  {Msg(<<sroot>> \o r, <<droot>> \o r, KindOf(r)) :
     r \in {q \in Paired : Diverges(q)}}

NoteSet(ns) == {ns[k] : k \in 1..Len(ns)}

\* The walk has returned to precopyCheck and the verdict is out.
WalkCompleted ==
  /\ entry = "precopyCheck" /\ pc = "done"
  /\ exit \in {<<0>>, <<exitStatusCopyUnsafe>>}

IsPrefix(q, r) == Len(q) <= Len(r) /\ SubSeq(r, 1, Len(q)) = q

\* The entries that one listing of a paired directory holds and the other
\* does not.
OneSided ==
  {r \in (DOMAIN fs[RootA] \cup DOMAIN fs[RootB]) \ Common :
     UnderCommonDirs(r)}

\* Every path the walk has touched: listed, opened, or named in a note.
Touched ==
  listed \cup opened \cup
  {notes[k].src : k \in 1..Len(notes)} \cup
  {notes[k].dst : k \in 1..Len(notes)}

\* The two files of the comparison in progress.
Data1 == Content(cmp.file1)
Data2 == Content(cmp.file2)
Returning == pc = "compare" /\ cmp.pc = "ret"

\* ------------------------------------------------------------ the claims

\* C1: when the walk has completed and no I/O call failed, the notes are
\* exactly one note for each relative path that exists in both trees under
\* directories common to both and diverges, of the kind of its divergence
\* (types, sizes, content), and no other note.
C1_NotesExact ==
  (WalkCompleted /\ ioFail = {}) =>
    /\ NoteSet(notes) = ExpectedNotes(SourceRoot, DestRoot)
    /\ Len(notes) = Cardinality(ExpectedNotes(SourceRoot, DestRoot))

\* C2: in every state, every note names the pair (sourceRoot/r, destRoot/r)
\* of one relative path r that exists in both trees, and no entry present on
\* one side only, nor anything beneath it, is listed, opened or named in a
\* note.
C2_NotesPairCommonPaths ==
  /\ \A k \in 1..Len(notes) :
       /\ Head(notes[k].src) = SourceRoot
       /\ Head(notes[k].dst) = DestRoot
       /\ Rel(notes[k].src) = Rel(notes[k].dst)
       /\ Rel(notes[k].src) \in Common
  /\ \A p \in Touched : \A r \in OneSided : ~IsPrefix(r, Rel(p))

C2_Witness ==
  /\ WalkCompleted
  /\ Len(notes) > 0
  /\ \E r \in OneSided : r \in DOMAIN fs[SourceRoot]

\* C3: a direct call on two files of different lengths, with every read
\* full and none failing, returns false.
C3_DifferentLengthsFalse ==
  (/\ Returning
   /\ entry = "IsFileContentIdentical"
   /\ Len(Data1) # Len(Data2)
   /\ cmp.full)
  => cmp.res = FALSE

\* C4: for two files of equal length, when every read fills the chunk
\* unless end of data is reached, the call returns true exactly when the
\* two files hold the same bytes.
C4_EqualLengthsExact ==
  (/\ Returning
   /\ Len(Data1) = Len(Data2)
   /\ cmp.full)
  => (cmp.res <=> Data1 = Data2)

C4_Witness ==
  /\ Returning
  /\ cmp.full
  /\ Len(Data1) > chunkSize
  /\ Data1 = Data2
  /\ cmp.res

\* C5: a run of precopyCheck ends with status 0 after "Safe to copy" iff the
\* walk completed without a note, with status 3 after "It may be unsafe" iff
\* it completed with a note, and with status 4 and no verdict line iff an
\* I/O call failed; no other status occurs.
C5_ThreeOutcomes ==
  (entry = "precopyCheck" /\ pc = "done") =>
    /\ exit \in {<<0>>, <<exitStatusCopyUnsafe>>, <<exitStatusOtherErrors>>}
    /\ exit = <<0>> <=>
         (ioFail = {} /\ Len(notes) = 0 /\ printed = "Safe to copy")
    /\ exit = <<exitStatusCopyUnsafe>> <=>
         (ioFail = {} /\ Len(notes) > 0 /\ printed = "It may be unsafe")
    /\ exit = <<exitStatusOtherErrors>> <=> (ioFail # {} /\ printed = "")

\* C6: during a walk a file is opened only when it and its counterpart are
\* non-directories of equal size under the same relative path; a note of
\* different types or sizes is recorded without either path having been
\* opened, and only the roots and directories paired with a directory are
\* listed.
C6_OpenOnlyEqualSizedFiles ==
  entry = "precopyCheck" =>
  /\ \A p \in opened :
       /\ Rel(p) \in Common
       /\ BothFiles(Rel(p))
       /\ ~LengthsDiffer(Rel(p))
  /\ \A k \in 1..Len(notes) :
       notes[k].kind \in {"different types", "different sizes"} =>
         notes[k].src \notin opened /\ notes[k].dst \notin opened
  /\ \A p \in listed :
       Rel(p) # <<>> =>
         /\ Rel(p) \in Common
         /\ NodeA(Rel(p)).isDir /\ NodeB(Rel(p)).isDir
  /\ handles # {} => pc \in {"compare", "done"}

C6_Witness ==
  /\ WalkCompleted
  /\ \E k \in 1..Len(notes) : notes[k].kind = "different sizes"
  /\ \E k \in 1..Len(notes) : notes[k].kind = "different types"

\* C7: when both walks have completed without a failed I/O call, the notes
\* of checkDir(B, A) are the notes of checkDir(A, B) with the two paths of
\* each note exchanged.
C7_Symmetric ==
  (WalkCompleted /\ run = 2 /\ fail1 = {} /\ ioFail = {}) =>
    {Msg(notes[k].dst, notes[k].src, notes[k].kind) : k \in 1..Len(notes)}
      = NoteSet(notes1)

\* C8: a comparison of two files with the same bytes, none of whose reads
\* failed, does not return false, however many bytes each read returned.
C8_IdenticalNeverFalse ==
  (/\ Returning
   /\ Data1 = Data2
   /\ "read" \notin ioFail)
  => cmp.res = TRUE

\* C9: once the process has exited or the direct call has returned, no file
\* opened by the comparison is still open.
C9_AllClosed == pc = "done" => handles = {}

\* The longest relative path that is a directory in both trees.
CommonDirs == {r \in Paired : NodeA(r).isDir /\ NodeB(r).isDir}
CommonDepth ==
  IF CommonDirs = {} THEN 0
  ELSE CHOOSE d \in 0..MaxNodes :
         /\ \E r \in CommonDirs : Len(r) = d
         /\ \A r \in CommonDirs : Len(r) <= d

DepthBounded == stack # <<>> => Len(stack) - 1 <= CommonDepth

\* C10: every run ends (the comparison returns or the process exits, in
\* the second run as in the first), and the recursion is never deeper than
\* the deepest directory common to both trees.
C10_Terminates == <>[](pc = "done") /\ []DepthBounded

C10_Witness ==
  /\ pc = "done" /\ run = 2
  /\ \E r \in CommonDirs : Len(r) > 0
====
